---- MODULE Spec2Model ----
(***************************************************************************)
(* Model of the scoring engine of src/src/main.jsx: calculateWeights,      *)
(* calculateWorstCaseImpact and runSimulation, and of the App component:    *)
(* the four steps of the form with their validations and error messages,   *)
(* and the calculation, display and saving of a simulation.                *)
(*                                                                         *)
(* Numbers.  The program computes in IEEE doubles.  The model computes the *)
(* same values exactly, in integers:                                       *)
(*   - a factor weight is an integer number of ten-thousandths (WScale),   *)
(*     so 0.35 is 3500 and the value toFixed(4) leaves is an integer;      *)
(*   - Math.round(n/d) is JsRound(n, d), round half up;                    *)
(*   - postDTI, a string with one decimal, is an integer number of tenths; *)
(*   - savings is an integer number of hundredths.                         *)
(* A form field holds '' or a number: '' is <<>> and the number n is <<n>>.*)
(* Other values a field of the record can hold are pairs: a string s is    *)
(* <<"string", s>> and a property that is missing <<"undefined", ..>>.     *)
(***************************************************************************)
EXTENDS Integers, Sequences, FiniteSets, TLC

VARIABLES
    data,       \* the record runSimulation / calculateWeights is called with;
                \* in the wizard, the state userData
    weights,    \* the object calculateWeights returned last (Null: none yet)
    results,    \* the record runSimulation returned last (Null: none yet);
                \* in the wizard, the state results
    remembered, \* an earlier invocation: its input, its result and the number
                \* of invocations with another input since (Null: none)
    currentStep,  \* the wizard's step, 1 to 4
    isLoading,    \* the spinner is shown
    error,        \* the message shown to the user, with the seconds it has
                  \* been shown (Null: none)
    isAuthReady,  \* the Firebase effect has finished, one way or another
    db,           \* the Firestore instance (Null: none)
    userId,       \* the id of the signed-in user (Null: none)
    timeout,      \* the callback calculateAndShowResults has scheduled, with
                  \* the values its closure has captured (Null: none pending)
    saves,        \* the calls of saveSimulation so far, each with how it went
    errorTimers   \* the callbacks showError has scheduled and that have not
                  \* run yet: the seconds each still has to wait

\* the state of the App component besides userData and results
app ==
    <<currentStep, isLoading, error, isAuthReady, db, userId, timeout, saves,
      errorTimers>>

vars == <<data, weights, results, remembered, app>>

Null == [none |-> TRUE]

----------------------------------------------------------------------------
(* Values of form fields and their coercion (runSimulation, lines 428-440) *)

Empty == <<>>

Num(n) == <<n>>

\* a string other than '': the value "70" of the utilization select, or text
Str(s) == <<"string", s>>

\* the value of a property the record does not have
Undefined == <<"undefined", "undefined">>

\* The strings used here that Number() reads as a number, with that number.
NumericStrings ==
    ("30" :> 30) @@ ("50" :> 50) @@ ("70" :> 70) @@ ("90" :> 90) @@ ("100" :> 100)
    @@ ("-1" :> -1) @@ ("0" :> 0) @@ ("1" :> 1) @@ ("8" :> 8) @@ ("12" :> 12)
    @@ ("60" :> 60) @@ ("299" :> 299) @@ ("650" :> 650) @@ ("851" :> 851)
    @@ ("1000" :> 1000) @@ ("4000" :> 4000) @@ ("20000" :> 20000)
    @@ ("30000" :> 30000)

\* Number(v) is NaN: v is undefined or a string that is not a numeral.
NumberIsNaN(v) == Len(v) = 2 /\ ~(v[1] = "string" /\ v[2] \in DOMAIN NumericStrings)

\* Number(v), where it is not NaN: '' converts to 0, a number to itself, a
\* numeral to the number it denotes.
Number(v) ==
    IF v = Empty THEN 0 ELSE IF Len(v) = 1 THEN v[1] ELSE NumericStrings[v[2]]

\* Number(v) || 36
NumberOrDefaultTimeline(v) == IF NumberIsNaN(v) \/ Number(v) = 0 THEN 36 ELSE Number(v)

\* A coercion that falls back on 36, as the one of programTimeline does.
NumberOrZero_Or36(v) == NumberOrDefaultTimeline(v)

\* Number(v) || 0
NumberOrZero(v) == IF NumberIsNaN(v) \/ Number(v) = 0 THEN 0 ELSE Number(v)

Max(a, b) == IF a >= b THEN a ELSE b

Min(a, b) == IF a <= b THEN a ELSE b

\* Math.round rounding a half down instead (a wrong rounding mode).
JsRound_HalfDown(n, d) == (2 * n + d - 1) \div (2 * d)

\* Math.round(n / d) for d > 0: the nearest integer, a half rounded up.
JsRound(n, d) == (2 * n + d) \div (2 * d)

----------------------------------------------------------------------------
(* calculateWeights, lines 337-394.  Weights in ten-thousandths.           *)

WScale == 10000

\* The weights object kept across calls (hoisted out of calculateWeights),
\* so that a call starts from what the call before left in it.
baseWeights_Hoisted ==
    IF weights = Null
    THEN [paymentHistory |-> 3500, utilization |-> 3000, accountAge |-> 1500,
          creditMix |-> 1000, newCredit |-> 1000]
    ELSE weights

\* lines 338-344: a fresh object on every call
baseWeights ==
    [paymentHistory |-> 3500, utilization |-> 3000, accountAge |-> 1500,
     creditMix |-> 1000, newCredit |-> 1000]

\* A tier rule whose two boundaries are exclusive.
AdjustTier_Exclusive(w, ficoScore) ==
    IF ficoScore > 740
    THEN [w EXCEPT !.paymentHistory = 2500, !.utilization = 4000, !.accountAge = 2000]
    ELSE IF ficoScore < 580
    THEN [w EXCEPT !.paymentHistory = 4500, !.utilization = 2500, !.newCredit = 1500]
    ELSE w

\* A tier rule that gives each of the two outer tiers the weights of the other.
AdjustTier_Swapped(w, ficoScore) ==
    IF ficoScore >= 740
    THEN [w EXCEPT !.paymentHistory = 4500, !.utilization = 2500, !.newCredit = 1500]
    ELSE IF ficoScore <= 580
    THEN [w EXCEPT !.paymentHistory = 2500, !.utilization = 4000, !.accountAge = 2000]
    ELSE w

\* 1. FICO tier (lines 346-355)
AdjustTier(w, ficoScore) ==
    IF ficoScore >= 740
    THEN [w EXCEPT !.paymentHistory = 2500, !.utilization = 4000, !.accountAge = 2000]
    ELSE IF ficoScore <= 580
    THEN [w EXCEPT !.paymentHistory = 4500, !.utilization = 2500, !.newCredit = 1500]
    ELSE w

\* A dti that is 0, not 1, without income.
DtiHigh_ZeroWithoutIncome(totalDebt, monthlyIncome) ==
    IF monthlyIncome > 0 THEN 100 * totalDebt > 45 * 12 * monthlyIncome ELSE FALSE

\* dti > 0.45 with dti = totalDebt / (monthlyIncome * 12), or 1 without income
\* (line 358-359): totalDebt / (12 * income) > 45/100.
DtiHigh(totalDebt, monthlyIncome) ==
    IF monthlyIncome > 0 THEN 100 * totalDebt > 45 * 12 * monthlyIncome ELSE TRUE

\* 2. DTI (lines 357-362)
AdjustDTI(w, totalDebt, monthlyIncome) ==
    IF DtiHigh(totalDebt, monthlyIncome)
    THEN [w EXCEPT !.utilization = Min(4500, w.utilization + 500),
                   !.paymentHistory = Max(2500, w.paymentHistory - 500)]
    ELSE w

\* A relief with the sign of the step slipped.
AdjustOverallUtilization_SignSlip(w, totalDebt, totalCreditLimit) ==
    IF totalCreditLimit > 0 /\ 100 * totalDebt < 30 * totalCreditLimit
    THEN [w EXCEPT !.utilization = Max(2000, w.utilization + 500)]
    ELSE w

\* overall utilization relief (lines 364-371): (totalDebt / limit) * 100 < 30
AdjustOverallUtilization(w, totalDebt, totalCreditLimit) ==
    IF totalCreditLimit > 0 /\ 100 * totalDebt < 30 * totalCreditLimit
    THEN [w EXCEPT !.utilization = Max(2000, w.utilization - 500)]
    ELSE w

\* An anchor rule without the floor of 0.30.
AdjustAnchors_NoFloor(w, positiveAccounts) ==
    IF positiveAccounts > 0
    THEN [w EXCEPT !.paymentHistory = w.paymentHistory - 500,
                   !.creditMix = Min(2000, w.creditMix + 500)]
    ELSE w

\* 3. positive accounts (lines 373-377)
AdjustAnchors(w, positiveAccounts) ==
    IF positiveAccounts > 0
    THEN [w EXCEPT !.paymentHistory = Max(3000, w.paymentHistory - 500),
                   !.creditMix = Min(2000, w.creditMix + 500)]
    ELSE w

\* 4. account age (lines 379-385)
AdjustAccountAge(w, oldestAccountAge) ==
    IF oldestAccountAge < 4
    THEN [w EXCEPT !.accountAge = Max(500, w.accountAge - 500),
                   !.newCredit = Min(2000, w.newCredit + 500)]
    ELSE IF oldestAccountAge > 10
    THEN [w EXCEPT !.accountAge = Min(2500, w.accountAge + 500)]
    ELSE w

WeightSum(w) ==
    w.paymentHistory + w.utilization + w.accountAge + w.creditMix + w.newCredit

\* The rules applied with the DTI rule and the anchor rule ahead of the tier rule.
AdjustedWeights_TierLate(ficoScore, totalDebt, monthlyIncome, positiveAccounts, oldestAccountAge, totalCreditLimit) ==
    AdjustAccountAge(
        AdjustOverallUtilization(
            AdjustTier(
                AdjustAnchors(AdjustDTI(baseWeights, totalDebt, monthlyIncome), positiveAccounts),
                ficoScore),
            totalDebt, totalCreditLimit),
        oldestAccountAge)

\* The weights as rules 1 to 4 leave them, before normalization.
AdjustedWeights(ficoScore, totalDebt, monthlyIncome, positiveAccounts, oldestAccountAge, totalCreditLimit) ==
    AdjustAccountAge(
        AdjustAnchors(
            AdjustOverallUtilization(
                AdjustDTI(AdjustTier(baseWeights, ficoScore), totalDebt, monthlyIncome),
                totalDebt, totalCreditLimit),
            positiveAccounts),
        oldestAccountAge)

\* A normalization that leaves the weights as they are.
Normalize_Skipped(w) == w

\* 5. normalization (lines 387-391): parseFloat((w[key] / sum).toFixed(4))
Normalize(w) ==
    [key \in DOMAIN w |-> JsRound(w[key] * WScale, WeightSum(w))]

calculateWeights(ficoScore, totalDebt, monthlyIncome, positiveAccounts, oldestAccountAge, totalCreditLimit) ==
    Normalize(AdjustedWeights(ficoScore, totalDebt, monthlyIncome, positiveAccounts,
                              oldestAccountAge, totalCreditLimit))

----------------------------------------------------------------------------
(* calculateWorstCaseImpact, lines 399-421                                 *)

\* drop is a multiple of 1/DropScale: the utilization term is
\* ((100 - utilization) / 10) * 5 * (weights.utilization * 2) and the
\* severity term ((ficoScore - 500) / 20) * 5.
DropScale == 4 * WScale

\* A drop whose utilization term takes the weight once, not twice.
DropScaled_SingleWeight(d, w) ==
    2 * Max(0, 100 - d.utilization) * w.utilization
    + WScale * Max(0, d.ficoScore - 500)
    - DropScale * d.positiveAccounts * 10
    - (IF d.oldestAccountAge > 10 THEN DropScale * 15 ELSE 0)

\* drop * DropScale (lines 400-417)
DropScaled(d, w) ==
    4 * Max(0, 100 - d.utilization) * w.utilization
    + WScale * Max(0, d.ficoScore - 500)
    - DropScale * d.positiveAccounts * 10
    - (IF d.oldestAccountAge > 10 THEN DropScale * 15 ELSE 0)

\* A cap that forgets the floor of 20.
CapDrop_NoFloor(drop) == Min(150, drop)

\* 5. Cap the drop (line 420)
CapDrop(drop) == Min(150, Max(20, drop))

calculateWorstCaseImpact(d, w) == CapDrop(JsRound(DropScaled(d, w), DropScale))

----------------------------------------------------------------------------
(* runSimulation, lines 426-521                                            *)

\* lines 428-440
numericData(d) ==
    [d EXCEPT !.ficoScore = NumberOrZero(d.ficoScore),
              !.totalDebt = NumberOrZero(d.totalDebt),
              !.monthlyIncome = NumberOrZero(d.monthlyIncome),
              !.utilization = NumberOrZero(d.utilization),
              !.accountsEnrolling = NumberOrZero(d.accountsEnrolling),
              !.positiveAccounts = NumberOrZero(d.positiveAccounts),
              !.oldestAccountAge = NumberOrZero(d.oldestAccountAge),
              !.programTimeline = NumberOrDefaultTimeline(d.programTimeline),
              !.totalCreditLimit = NumberOrZero(d.totalCreditLimit),
              !.monthsInProgram = NumberOrZero(d.monthsInProgram)]

\* lines 443-450
WeightsOf(n) ==
    calculateWeights(n.ficoScore, n.totalDebt, n.monthlyIncome, n.positiveAccounts,
                     n.oldestAccountAge, n.totalCreditLimit)

\* An impact estimate applied in both scenarios.
ImpactPenalty_Always(n, w) == calculateWorstCaseImpact(n, w)

\* line 457, else 463
ImpactPenalty(n, w) ==
    IF n.scenarioType = "pre-enrollment" THEN calculateWorstCaseImpact(n, w) ELSE 0

\* A low point without the floor of 300.
LowPointScore_NoFloor(n, w) ==
    IF n.scenarioType = "pre-enrollment"
    THEN n.ficoScore - ImpactPenalty(n, w)
    ELSE n.ficoScore

\* lines 456-461
LowPointScore(n, w) ==
    IF n.scenarioType = "pre-enrollment"
    THEN Max(300, n.ficoScore - ImpactPenalty(n, w))
    ELSE n.ficoScore

\* Recovery months that subtract the months in program in both scenarios.
RecoveryMonths_Always(n) == Max(12, n.programTimeline - n.monthsInProgram)

\* lines 453, 462
RecoveryMonths(n) ==
    IF n.scenarioType = "pre-enrollment"
    THEN n.programTimeline
    ELSE Max(12, n.programTimeline - n.monthsInProgram)

\* Tools that exclude one another: only the first one selected counts.
ToolGain_FirstOnly(n) ==
    IF n.securedCard THEN 30 ELSE IF n.creditBuilder THEN 25
    ELSE IF n.authorizedUser THEN 10 ELSE 0

\* lines 483-486
ToolGain(n) ==
    (IF n.securedCard THEN 30 ELSE 0) + (IF n.creditBuilder THEN 25 ELSE 0)
    + (IF n.authorizedUser THEN 10 ELSE 0)

\* The gain of the three weighted factors is a multiple of 1/GainScale.
GainScale == 36 * WScale

\* lines 471-480, times GainScale:
\* utilization * 250 + paymentHistory * 150 * (months / 36) + accountAge * 50 * (months / 36)
FactorGainScaled(w, recoveryMonths) ==
    w.utilization * 250 * 36 + w.paymentHistory * 150 * recoveryMonths
    + w.accountAge * 50 * recoveryMonths

\* A projection without the cap of 850.
ProjectedScore_NoCap(lowPointScore, w, recoveryMonths, toolGain) ==
    lowPointScore + toolGain + JsRound(FactorGainScaled(w, recoveryMonths), GainScale)

\* A projection capped at 800.
ProjectedScore_Cap800(lowPointScore, w, recoveryMonths, toolGain) ==
    Min(800, lowPointScore + toolGain
             + JsRound(FactorGainScaled(w, recoveryMonths), GainScale))

\* line 490: Math.min(850, Math.round(lowPointScore + totalPotentialGain))
ProjectedScore(lowPointScore, w, recoveryMonths, toolGain) ==
    Min(850, lowPointScore + toolGain
             + JsRound(FactorGainScaled(w, recoveryMonths), GainScale))

\* line 493, in hundredths: totalDebt * 0.55
DebtSavings(n) == n.totalDebt * 55

\* lines 494-499, in hundredths: postProgramDebt = totalDebt - debtSavings
PostProgramDebt(n) == 100 * n.totalDebt - DebtSavings(n)

\* The pairs <<totalDebt, monthlyIncome>> of the inputs used here for which
\* the exact value of postDTI ends in 5 in its second decimal while the double
\* (postProgramDebt * 0.05 / 12 / monthlyIncome) * 100 lies just below it
\* (5400 and 450: 2.2499999999999996 for 2.25), so that toFixed(1) rounds down.
PostDTIBelowTie == {<<5400, 50>>, <<5400, 450>>}

\* toFixed(1) of postDTI, in tenths: the nearest tenth of
\* postProgramDebt * 0.05 / 12 / monthlyIncome * 100, which is
\* PostProgramDebt(n) / (24 * monthlyIncome) tenths.
PostDTIToFixed(n) ==
    JsRound(PostProgramDebt(n), 24 * n.monthlyIncome)
    - (IF <<n.totalDebt, n.monthlyIncome>> \in PostDTIBelowTie THEN 1 ELSE 0)

\* A postDTI without the cap of 50.
PostDTI_NoCap(n) == IF n.monthlyIncome > 0 THEN PostDTIToFixed(n) ELSE 0

\* lines 494-499 and 512, in tenths of a percent:
\* Math.min(50, postDTI).toFixed(1), postDTI being 0 without income
PostDTI(n) == IF n.monthlyIncome > 0 THEN Min(500, PostDTIToFixed(n)) ELSE 0

\* A stabilization milestone that takes the larger of the two scores.
StabilizationScore_Larger(initialScore, lowPointScore, totalGain) == Max(initialScore, lowPointScore + JsRound(totalGain * 15, 100))

\* line 503
StabilizationScore(initialScore, lowPointScore, totalGain) ==
    Min(initialScore, lowPointScore + JsRound(totalGain * 15, 100))

\* A recovery milestone with 6.5 for 0.65.
RecoveryScore_DecimalSlip(lowPointScore, totalGain) == lowPointScore + JsRound(totalGain * 65, 10)

\* line 504
RecoveryScore(lowPointScore, totalGain) == lowPointScore + JsRound(totalGain * 65, 100)

\* lines 443-520: the computation on the coerced record n
Projection(n) ==
    LET initialScore == n.ficoScore
        w == WeightsOf(n)
        impactPenalty == ImpactPenalty(n, w)
        lowPointScore == LowPointScore(n, w)
        recoveryMonths == RecoveryMonths(n)
        projectedScore == ProjectedScore(lowPointScore, w, recoveryMonths, ToolGain(n))
        totalGain == projectedScore - lowPointScore
    IN  [initialScore |-> initialScore,
         lowPointScore |-> lowPointScore,
         projectedScore |-> projectedScore,
         scoreGain |-> projectedScore - initialScore,
         recoveryTime |-> <<recoveryMonths, "months">>,
         postDTI |-> PostDTI(n),
         savings |-> DebtSavings(n),
         impactPenalty |-> impactPenalty,
         recoveryMonths |-> recoveryMonths,
         weights |-> w,
         milestoneDipScore |-> lowPointScore,
         milestoneStabilizationScore |->
             StabilizationScore(initialScore, lowPointScore, totalGain),
         milestoneRecoveryScore |-> RecoveryScore(lowPointScore, totalGain)]

runSimulation(d) == Projection(numericData(d))

----------------------------------------------------------------------------
(* Inputs                                                                  *)

MaxPositiveAccounts == 2

Profile(fico, debt, income, limit, util, positive, age, timeline, scenario, months, secured, builder, authorized) ==
    [ficoScore |-> fico, totalDebt |-> debt, monthlyIncome |-> income,
     utilization |-> util, accountsEnrolling |-> Num(1),
     positiveAccounts |-> positive, oldestAccountAge |-> age,
     programTimeline |-> timeline, totalCreditLimit |-> limit,
     scenarioType |-> scenario, monthsInProgram |-> months,
     securedCard |-> secured, creditBuilder |-> builder,
     authorizedUser |-> authorized]

ScenarioTypes == {"pre-enrollment", "progress-tracker"}

\* In and out of [300, 850], on both sides of 500, 580 and 740, and left empty.
FicoScores ==
    {Empty} \cup {Num(f) : f \in {250, 300, 450, 580, 581, 650, 740, 803, 850,
                                  900, 1200}}

\* <<totalDebt, monthlyIncome, totalCreditLimit>>: dti below and above 0.45,
\* overall utilization below and above 30%, no income, no limit, nothing entered.
Finances ==
    {<<Num(20000), Num(4000), Num(30000)>>, <<Num(20000), Num(4000), Num(100000)>>,
     <<Num(20000), Num(1000), Num(30000)>>, <<Num(20000), Num(1000), Num(100000)>>,
     <<Num(20000), Num(0), Num(0)>>, <<Empty, Empty, Empty>>}

\* Options of the utilization select, '' included, and a value beyond them.
Utilizations == {Empty} \cup {Num(u) : u \in {30, 70, 100, 150}}

PositiveAccounts == {Num(p) : p \in 0..MaxPositiveAccounts}

OldestAccountAges == {Num(3), Num(8), Num(11)}

ProgramTimelines == {Num(12), Num(36), Num(60)}

MonthsInProgram == {Num(0), Num(12), Num(30)}

\* The profile of worked scenario A.
ScenarioA ==
    Profile(Num(650), Num(20000), Num(4000), Num(30000), Num(70), Num(1), Num(8),
            Num(36), "pre-enrollment", Num(0), TRUE, TRUE, FALSE)

\* The precondition contract of the engine's inputs.
ValidProfile(d) ==
    LET n == numericData(d)
    IN  /\ d.ficoScore # Empty /\ n.ficoScore >= 300 /\ n.ficoScore <= 850
        /\ d.totalDebt # Empty /\ n.totalDebt > 1000
        /\ d.monthlyIncome # Empty /\ n.monthlyIncome >= 0
        /\ d.positiveAccounts # Empty /\ n.positiveAccounts >= 0
        /\ d.oldestAccountAge # Empty /\ n.oldestAccountAge >= 0
        /\ d.totalCreditLimit # Empty /\ n.totalCreditLimit >= 0

----------------------------------------------------------------------------
(* Spec: runSimulation applied to a profile                                *)

\* The state of the App component as useState constructs it (lines 237-246).
AppConstructed ==
    /\ currentStep = 1
    /\ isLoading = FALSE
    /\ error = Null
    /\ isAuthReady = FALSE
    /\ db = Null
    /\ userId = Null
    /\ timeout = Null
    /\ saves = <<>>
    /\ errorTimers = {}

Init ==
    /\ \E fico \in FicoScores, fin \in Finances, util \in Utilizations,
          positive \in PositiveAccounts, age \in OldestAccountAges,
          timeline \in ProgramTimelines, scenario \in ScenarioTypes,
          months \in MonthsInProgram, secured \in BOOLEAN, builder \in BOOLEAN,
          authorized \in BOOLEAN :
            data = Profile(fico, fin[1], fin[2], fin[3], util, positive, age,
                           timeline, scenario, months, secured, builder, authorized)
    /\ weights = Null
    /\ results = Null
    /\ remembered = Null
    /\ AppConstructed

\* const calculatedResults = runSimulation(userData) (line 623); the weights
\* object the call made is the one the result holds.
RunSimulation ==
    /\ results = Null
    /\ results' = runSimulation(data)
    /\ weights' = results'.weights
    /\ remembered' = IF remembered # Null /\ data # remembered.input
                     THEN [remembered EXCEPT !.later = @ + 1]
                     ELSE remembered
    /\ UNCHANGED <<data, app>>

Next == RunSimulation

Spec == Init /\ [][Next]_vars

----------------------------------------------------------------------------
(* SpecWeights: calculateWeights applied to the six fields it reads        *)

MaxAccountAge == 12

WeightFicoScores ==
    {Empty} \cup {Num(f) : f \in {250, 300, 580, 581, 650, 739, 740, 850, 900}}

WeightDebts == {Empty} \cup {Num(t) : t \in {1001, 5400, 5401, 20000, 30000}}

WeightIncomes == {Empty, Num(0), Num(1000), Num(4000)}

WeightLimits == {Empty, Num(0), Num(18000), Num(18004), Num(66667), Num(100000)}

WeightAges == {Num(a) : a \in 0..MaxAccountAge}

InitWeights ==
    /\ \E fico \in WeightFicoScores, debt \in WeightDebts, income \in WeightIncomes,
          limit \in WeightLimits, positive \in PositiveAccounts, age \in WeightAges :
            data = Profile(fico, debt, income, limit, Num(70), positive, age,
                           Num(36), "pre-enrollment", Num(0), TRUE, FALSE, FALSE)
    /\ weights = Null
    /\ results = Null
    /\ remembered = Null
    /\ AppConstructed

\* const weights = calculateWeights(numericData.ficoScore, ...) (lines 443-450)
CalculateWeights ==
    /\ weights = Null
    /\ weights' = WeightsOf(numericData(data))
    /\ UNCHANGED <<data, results, remembered, app>>

NextWeights == CalculateWeights

SpecWeights == InitWeights /\ [][NextWeights]_vars

\* The working copy of the weights of the profile in data, before normalization.
AdjustedOf(d) ==
    LET n == numericData(d)
    IN  AdjustedWeights(n.ficoScore, n.totalDebt, n.monthlyIncome, n.positiveAccounts,
                        n.oldestAccountAge, n.totalCreditLimit)

Abs(x) == IF x >= 0 THEN x ELSE -x

----------------------------------------------------------------------------
(* Claims on calculateWeights                                              *)

\* C1: for every valid profile the five weights calculateWeights returns,
\* normalized and rounded to 4 decimals, sum to 1.0 within +/-0.001.
C1_WeightsSumToOne ==
    (weights # Null /\ ValidProfile(data))
        => Abs(WeightSum(weights) - WScale) * 1000 <= WScale

\* C1 witness: weights of a valid profile whose rounded sum is not exactly 1.
C1_Witness ==
    /\ weights # Null
    /\ ValidProfile(data)
    /\ WeightSum(weights) # WScale
    /\ WeightSum(AdjustedOf(data)) # WScale

\* C2 as stated: for every valid profile the utilization weight returned by
\* calculateWeights lies in [0.20, 0.45].
C2_ReturnedUtilizationInClampRange ==
    (weights # Null /\ ValidProfile(data))
        => (weights.utilization >= 2000 /\ weights.utilization <= 4500)

\* C2 amended: for every valid profile the utilization weight lies in
\* [0.20, 0.45] before normalization, and the normalized value that
\* calculateWeights returns lies in [0.1818, 0.45].
C2_UtilizationRange ==
    (weights # Null /\ ValidProfile(data))
        => /\ AdjustedOf(data).utilization >= 2000
           /\ AdjustedOf(data).utilization <= 4500
           /\ weights.utilization >= 1818
           /\ weights.utilization <= 4500

\* C2 witness: a valid profile whose utilization weight is 0.20 before
\* normalization and 0.1818 after it.
C2_Witness ==
    /\ weights # Null
    /\ ValidProfile(data)
    /\ AdjustedOf(data).utilization = 2000
    /\ weights.utilization = 1818

\* The ranges the derivation rules clamp the other four weights to.
OtherWeightsInClampRange(w) ==
    /\ w.paymentHistory >= 2500 /\ w.paymentHistory <= 4500
    /\ w.accountAge >= 500 /\ w.accountAge <= 2500
    /\ w.creditMix <= 2000
    /\ w.newCredit <= 2000

\* C3 as stated: for every valid profile the returned paymentHistory lies in
\* [0.25, 0.45], accountAge in [0.05, 0.25], creditMix <= 0.20 and
\* newCredit <= 0.20, also after normalization.
C3_ReturnedWeightsInClampRange ==
    (weights # Null /\ ValidProfile(data)) => OtherWeightsInClampRange(weights)

\* C3 amended: for every valid profile the four weights lie in these ranges
\* before normalization; after normalization accountAge, creditMix and
\* newCredit still do, and paymentHistory lies in [0.2174, 0.45].
C3_OtherWeightsRange ==
    (weights # Null /\ ValidProfile(data))
        => /\ OtherWeightsInClampRange(AdjustedOf(data))
           /\ weights.paymentHistory >= 2174 /\ weights.paymentHistory <= 4500
           /\ weights.accountAge >= 500 /\ weights.accountAge <= 2500
           /\ weights.creditMix <= 2000
           /\ weights.newCredit <= 2000

\* C3 witness: a valid profile whose paymentHistory weight is 0.25 before
\* normalization and 0.2174 after it.
C3_Witness ==
    /\ weights # Null
    /\ ValidProfile(data)
    /\ AdjustedOf(data).paymentHistory = 2500
    /\ weights.paymentHistory = 2174

----------------------------------------------------------------------------
(* Claims on the rules of calculateWeights, under SpecWeights              *)

\* dti > 0.45 for the profile in data, dti being 1 without income
HighDTI ==
    LET n == numericData(data)
    IN  n.monthlyIncome <= 0 \/ 100 * n.totalDebt > 540 * n.monthlyIncome

\* overall utilization below 30% of a positive credit limit
Relief ==
    LET n == numericData(data)
    IN  n.totalCreditLimit > 0 /\ 100 * n.totalDebt < 30 * n.totalCreditLimit

\* C15: the weights before normalization are the five rules applied in the
\* order tier, DTI, overall-utilization relief, positive-account anchor,
\* account age, each reading what the earlier ones left.  With
\* ficoScore >= 740 and dti > 0.45 the tier and DTI rules leave utilization
\* 0.45 and paymentHistory 0.25, with ficoScore <= 580 and dti > 0.45
\* utilization 0.30 and paymentHistory 0.40; the relief then takes 0.05 off
\* the utilization, the anchor rule 0.05 off the paymentHistory down to 0.30,
\* and the age rule moves the tier's accountAge and newCredit.
C15_RuleOrder ==
    weights # Null
        => LET n == numericData(data)
               a == AdjustedOf(data)
               relief == IF Relief THEN 500 ELSE 0
               anchored == n.positiveAccounts > 0
           IN  /\ weights = Normalize(a)
               /\ (n.ficoScore >= 740 /\ HighDTI)
                    => /\ a.utilization = 4500 - relief
                       /\ a.paymentHistory = (IF anchored THEN 3000 ELSE 2500)
               /\ (n.ficoScore <= 580 /\ HighDTI)
                    => /\ a.utilization = 3000 - relief
                       /\ a.paymentHistory = (IF anchored THEN 3500 ELSE 4000)
               /\ n.ficoScore >= 740
                    => a.accountAge = (IF n.oldestAccountAge < 4 THEN 1500
                                      ELSE IF n.oldestAccountAge > 10 THEN 2500 ELSE 2000)
               /\ n.ficoScore <= 580
                    => a.newCredit = (IF n.oldestAccountAge < 4 THEN 2000 ELSE 1500)

\* C15 witness: weights of a profile with ficoScore >= 740, dti > 0.45, a
\* relief, a positive account and an old account: all five rules applied.
C15_Witness ==
    /\ weights # Null
    /\ Number(data.ficoScore) >= 740
    /\ Number(data.monthlyIncome) > 0
    /\ HighDTI
    /\ Relief
    /\ Number(data.positiveAccounts) > 0
    /\ Number(data.oldestAccountAge) > 10
    /\ AdjustedOf(data).utilization = 4000
    /\ AdjustedOf(data).paymentHistory = 3000

\* The weights the tier rule is to leave for a ficoScore.
TierWeights(ficoScore) ==
    IF ficoScore \in 581..739
    THEN [paymentHistory |-> 3500, utilization |-> 3000, accountAge |-> 1500,
          creditMix |-> 1000, newCredit |-> 1000]
    ELSE IF ficoScore > 739
    THEN [paymentHistory |-> 2500, utilization |-> 4000, accountAge |-> 2000,
          creditMix |-> 1000, newCredit |-> 1000]
    ELSE [paymentHistory |-> 4500, utilization |-> 2500, accountAge |-> 1500,
          creditMix |-> 1000, newCredit |-> 1500]

\* C16: the tier rule has inclusive boundaries.  A ficoScore of 740 or more
\* takes the high-score branch (paymentHistory 0.25, utilization 0.40,
\* accountAge 0.20), one of 580 or less the low-score branch (paymentHistory
\* 0.45, utilization 0.25, newCredit 0.15), one of 581 to 739 leaves the base
\* weights; never both branches.  The weights returned are the later rules
\* and the normalization applied to exactly these.
C16_TierBoundaries ==
    weights # Null
        => LET n == numericData(data)
               tier == TierWeights(n.ficoScore)
           IN  /\ AdjustTier(baseWeights, n.ficoScore) = tier
               /\ weights =
                    Normalize(AdjustAccountAge(
                        AdjustAnchors(
                            AdjustOverallUtilization(
                                AdjustDTI(tier, n.totalDebt, n.monthlyIncome),
                                n.totalDebt, n.totalCreditLimit),
                            n.positiveAccounts),
                        n.oldestAccountAge))

\* C16 witness: weights for the ficoScore 740 and a profile no later rule
\* applies to: the high-score branch, normalized (the sum is 1.05).
C16_Witness ==
    /\ weights # Null
    /\ data.ficoScore = Num(740)
    /\ ~HighDTI /\ ~Relief
    /\ Number(data.positiveAccounts) = 0
    /\ Number(data.oldestAccountAge) \in 4..10
    /\ weights = [paymentHistory |-> 2381, utilization |-> 3810, accountAge |-> 1905,
                  creditMix |-> 952, newCredit |-> 952]

----------------------------------------------------------------------------
(* Claims on runSimulation, under Spec                                     *)

PreEnrollment == data.scenarioType = "pre-enrollment"

ProgressTracker == data.scenarioType = "progress-tracker"

\* what calculateWorstCaseImpact rounds, before and after the rounding
RawDrop(d) == JsRound(DropScaled(numericData(d), WeightsOf(numericData(d))), DropScale)

\* C4: in the pre-enrollment scenario impactPenalty is an integer in
\* [20, 150] for every profile, also for extreme or out-of-contract values of
\* utilization, ficoScore, positiveAccounts and oldestAccountAge.
C4_ImpactBound ==
    (results # Null /\ PreEnrollment)
        => (results.impactPenalty \in Int
            /\ results.impactPenalty >= 20 /\ results.impactPenalty <= 150)

\* C4 witness: an out-of-contract pre-enrollment profile whose rounded drop
\* is above 150 and whose impactPenalty is 150.
C4_Witness ==
    /\ results # Null
    /\ PreEnrollment
    /\ ~ValidProfile(data)
    /\ RawDrop(data) > 150
    /\ results.impactPenalty = 150

\* C5: for every valid profile and both scenario types, lowPointScore >= 300,
\* projectedScore <= 850 and projectedScore >= lowPointScore.
C5_ScoreBounds ==
    (results # Null /\ ValidProfile(data))
        => /\ results.lowPointScore >= 300
           /\ results.projectedScore <= 850
           /\ results.projectedScore >= results.lowPointScore

\* C5 witness: a valid pre-enrollment profile for which the floor of 300 was
\* applied to the low point.
C5_Witness ==
    /\ results # Null
    /\ ValidProfile(data)
    /\ PreEnrollment
    /\ results.initialScore - results.impactPenalty < 300
    /\ results.lowPointScore = 300
    /\ results.projectedScore > 300

ScoreInRange(x) == x >= 300 /\ x <= 850

AllScoresInRange(r) ==
    /\ ScoreInRange(r.lowPointScore)
    /\ ScoreInRange(r.projectedScore)
    /\ ScoreInRange(r.milestoneDipScore)
    /\ ScoreInRange(r.milestoneStabilizationScore)
    /\ ScoreInRange(r.milestoneRecoveryScore)

C8_ScenarioA ==
    (results # Null /\ data = ScenarioA)
        => /\ results.weights =
                [paymentHistory |-> 3000, utilization |-> 3000, accountAge |-> 1500,
                 creditMix |-> 1500, newCredit |-> 1000]
           /\ results.impactPenalty = 37
           /\ results.lowPointScore = 613
           /\ results.projectedScore = 796
           /\ results.scoreGain = 146
           /\ results.savings = 11000 * 100
           /\ results.postDTI = 9
           /\ results.milestoneStabilizationScore = 640
           /\ results.milestoneRecoveryScore = 732

\* C8 witness: runSimulation has returned for the profile of scenario A.
C8_Witness == results # Null /\ data = ScenarioA /\ results.initialScore = 650

\* The profile of worked scenario B.
ScenarioB ==
    [ScenarioA EXCEPT !.scenarioType = "progress-tracker", !.monthsInProgram = Num(12)]

\* C9: in the progress-tracker scenario, for every profile, the impact
\* estimator is not applied: impactPenalty = 0, lowPointScore = ficoScore and
\* recoveryMonths = max(12, programTimeline - monthsInProgram); on scenario B
\* these are 0, 650 and 24.
C9_ProgressTracker ==
    (results # Null /\ ProgressTracker)
        => LET n == numericData(data)
           IN  /\ results.impactPenalty = 0
               /\ results.lowPointScore = n.ficoScore
               /\ results.recoveryMonths = Max(12, n.programTimeline - n.monthsInProgram)
               /\ data = ScenarioB
                    => (results.lowPointScore = 650 /\ results.recoveryMonths = 24)

\* C9 witness: a progress-tracker result for a profile whose impact estimate
\* would not be 0 and whose remaining months are above the floor of 12.
C9_Witness ==
    /\ results # Null
    /\ ProgressTracker
    /\ RawDrop(data) > 20
    /\ results.recoveryMonths > 12
    /\ Number(data.monthsInProgram) > 0

\* C10: in the pre-enrollment scenario lowPointScore = max(300, ficoScore -
\* impactPenalty), recoveryMonths = programTimeline, and two inputs that
\* differ only in monthsInProgram give identical results.
C10_PreEnrollment ==
    (results # Null /\ PreEnrollment)
        => LET n == numericData(data)
           IN  /\ results.lowPointScore = Max(300, n.ficoScore - results.impactPenalty)
               /\ results.recoveryMonths = n.programTimeline
               /\ \A m \in MonthsInProgram :
                    runSimulation([data EXCEPT !.monthsInProgram = m]) = results

\* C10 witness: a pre-enrollment result for a profile with months in program
\* large enough to change the recovery months of a progress-tracker profile.
C10_Witness ==
    /\ results # Null
    /\ PreEnrollment
    /\ Number(data.monthsInProgram) > 0
    /\ results.recoveryMonths # RecoveryMonths_Always(numericData(data))

\* C11: for every valid profile, in both scenarios, the milestones are
\* ordered: lowPointScore = milestoneDipScore <= milestoneStabilizationScore
\* <= milestoneRecoveryScore <= projectedScore, also when the cap of 850 or
\* the floor of 300 was applied.
C11_MilestonesOrdered ==
    (results # Null /\ ValidProfile(data))
        => /\ results.lowPointScore = results.milestoneDipScore
           /\ results.milestoneDipScore <= results.milestoneStabilizationScore
           /\ results.milestoneStabilizationScore <= results.milestoneRecoveryScore
           /\ results.milestoneRecoveryScore <= results.projectedScore

\* C11 witness: a valid pre-enrollment profile whose projection the cap of
\* 850 cut, with a low point below the starting score and four different
\* scores.
C11_Witness ==
    /\ results # Null
    /\ ValidProfile(data)
    /\ PreEnrollment
    /\ ProjectedScore_NoCap(results.lowPointScore, results.weights, results.recoveryMonths, ToolGain(numericData(data))) > 850
    /\ results.projectedScore = 850
    /\ results.milestoneDipScore < results.milestoneStabilizationScore
    /\ results.milestoneStabilizationScore < results.milestoneRecoveryScore
    /\ results.milestoneRecoveryScore < results.projectedScore

\* C12: for every input, milestoneStabilizationScore = min(initialScore,
\* lowPointScore + round(0.15 * (projectedScore - lowPointScore))), so it never
\* exceeds the starting score.
C12_StabilizationCapped ==
    results # Null
        => /\ results.milestoneStabilizationScore
                = Min(results.initialScore,
                      results.lowPointScore
                      + JsRound(15 * (results.projectedScore - results.lowPointScore), 100))
           /\ results.initialScore = NumberOrZero(data.ficoScore)
           /\ results.milestoneStabilizationScore <= NumberOrZero(data.ficoScore)

\* C12 witness: a pre-enrollment result whose low point plus 15% of the gain
\* is above the starting score, which the milestone is cut to, above the dip.
C12_Witness ==
    /\ results # Null
    /\ PreEnrollment
    /\ results.lowPointScore
         + JsRound(15 * (results.projectedScore - results.lowPointScore), 100)
         > results.initialScore
    /\ results.milestoneStabilizationScore = results.initialScore
    /\ results.milestoneStabilizationScore > results.milestoneDipScore

\* The reference drop of the impact estimate, in twenty-thousandths of a
\* point, for the numeric profile n and the utilization weight wu (in
\* ten-thousandths): max(0, (100 - utilization) / 10) * 5 * (wu * 2)
\* + max(0, (ficoScore - 500) / 20) * 5 - positiveAccounts * 10, minus 15 when
\* oldestAccountAge > 10.
ReferenceDrop(n, wu) ==
    2 * wu * (IF n.utilization < 100 THEN 100 - n.utilization ELSE 0)
    + 5000 * (IF n.ficoScore > 500 THEN n.ficoScore - 500 ELSE 0)
    - 20000 * (10 * n.positiveAccounts + (IF n.oldestAccountAge > 10 THEN 15 ELSE 0))

\* C13: for every input the value of calculateWorstCaseImpact is the
\* reference drop, rounded half-up to an integer r (r <= drop + 1/2 < r + 1)
\* and then clamped to [20, 150].
C13_ImpactIsReference ==
    (results # Null /\ PreEnrollment)
        => LET drop == ReferenceDrop(numericData(data), results.weights.utilization)
               half == 10000
               p == results.impactPenalty
           IN  \/ p = 20 /\ drop + half < 21 * 20000
               \/ p = 150 /\ drop + half >= 150 * 20000
               \/ /\ p > 20 /\ p < 150
                  /\ p * 20000 <= drop + half
                  /\ drop + half < (p + 1) * 20000

\* C13 witness: a pre-enrollment result whose reference drop lies exactly
\* half-way between two integers inside (20, 150) and was rounded up.
C13_Witness ==
    /\ results # Null
    /\ PreEnrollment
    /\ results.impactPenalty > 20 /\ results.impactPenalty < 150
    /\ ReferenceDrop(numericData(data), results.weights.utilization) + 10000
         = results.impactPenalty * 20000

\* C14: projectedScore = min(850, round(lowPointScore + utilizationWeight * 250
\* + paymentHistoryWeight * 150 * (recoveryMonths / 36)
\* + accountAgeWeight * 50 * (recoveryMonths / 36) + toolGain)), with toolGain
\* = 30 if securedCard, plus 25 if creditBuilder, plus 10 if authorizedUser,
\* and scoreGain = projectedScore - initialScore, where initialScore is the
\* ficoScore entered, not the low point.  (The sum is in 1/360000 of a point;
\* p is the sum rounded when p <= sum + 1/2 < p + 1.)
C14_ProjectedScore ==
    results # Null
        => LET w == results.weights
               months == results.recoveryMonths
               toolGain == (IF data.securedCard THEN 30 ELSE 0)
                           + (IF data.creditBuilder THEN 25 ELSE 0)
                           + (IF data.authorizedUser THEN 10 ELSE 0)
               sum == 360000 * (results.lowPointScore + toolGain)
                      + 36 * 250 * w.utilization
                      + 150 * months * w.paymentHistory
                      + 50 * months * w.accountAge
               p == results.projectedScore
           IN  /\ \/ p = 850 /\ 2 * sum + 360000 >= 2 * 360000 * 850
                  \/ /\ p < 850
                     /\ 2 * 360000 * p <= 2 * sum + 360000
                     /\ 2 * sum + 360000 < 2 * 360000 * (p + 1)
               /\ results.scoreGain = results.projectedScore - NumberOrZero(data.ficoScore)

\* C14 witness: a pre-enrollment result with the three tools selected, a low
\* point below the ficoScore entered, recovery months other than 36 and a
\* projection below the cap.
C14_Witness ==
    /\ results # Null
    /\ PreEnrollment
    /\ data.securedCard /\ data.creditBuilder /\ data.authorizedUser
    /\ results.lowPointScore < results.initialScore
    /\ results.recoveryMonths = 12
    /\ results.projectedScore < 850
    /\ results.scoreGain # results.projectedScore - results.lowPointScore

----------------------------------------------------------------------------
(* SpecHistory: runSimulation invoked again and again                      *)

MaxLaterCalls == 2

HistoryProfiles ==
    {Profile(fico, fin[1], fin[2], fin[3], Num(70), positive, Num(8), Num(36),
             scenario, Num(12), TRUE, TRUE, FALSE) :
        fico \in {Num(580), Num(650), Num(740)},
        fin \in {<<Num(20000), Num(4000), Num(30000)>>,
                 <<Num(20000), Num(1000), Num(100000)>>},
        positive \in {Num(0), Num(1)},
        scenario \in ScenarioTypes}

InitHistory ==
    /\ data \in HistoryProfiles
    /\ weights = Null
    /\ results = Null
    /\ remembered = Null
    /\ AppConstructed

\* The caller keeps the input and the result of an invocation.
Remember ==
    /\ results # Null
    /\ remembered = Null
    /\ remembered' = [input |-> data, result |-> results, later |-> 0]
    /\ UNCHANGED <<data, weights, results, app>>

\* The next invocation is prepared: another input record, no result yet.  The
\* weights object of the invocation before is still what it was.
NewRequest ==
    /\ results # Null
    /\ \E d \in HistoryProfiles :
        /\ remembered # Null => (remembered.later < MaxLaterCalls \/ d = remembered.input)
        /\ data' = d
    /\ results' = Null
    /\ UNCHANGED <<weights, remembered, app>>

NextHistory == RunSimulation \/ Remember \/ NewRequest

SpecHistory == InitHistory /\ [][NextHistory]_vars

----------------------------------------------------------------------------
(* SpecFinancials: runSimulation over debts, incomes and credit limits     *)

\* Nothing entered, no debt, debts in contract; 5400 gives postDTI values that
\* end in 5 in the second decimal.
FinancialDebts == {Empty} \cup {Num(t) : t \in {0, 1001, 5400, 20000, 90000}}

\* Nothing entered, no income, incomes small enough for postDTI above 50.
FinancialIncomes == {Empty} \cup {Num(i) : i \in {0, 50, 450, 1000, 4000}}

FinancialLimits == {Num(0), Num(30000), Num(100000)}

InitFinancials ==
    /\ \E fico \in {Num(580), Num(650), Num(740)}, debt \in FinancialDebts,
          income \in FinancialIncomes, limit \in FinancialLimits,
          positive \in PositiveAccounts, age \in OldestAccountAges,
          scenario \in ScenarioTypes :
            data = Profile(fico, debt, income, limit, Num(70), positive, age,
                           Num(36), scenario, Num(12), TRUE, TRUE, FALSE)
    /\ weights = Null
    /\ results = Null
    /\ remembered = Null
    /\ AppConstructed

NextFinancials == RunSimulation

SpecFinancials == InitFinancials /\ [][NextFinancials]_vars

\* C17: zero income causes no division error.  With monthlyIncome = 0 the
\* DTI adjustment is always applied to what the tier rule left (utilization
\* raised by 0.05, up to 0.45; paymentHistory lowered by 0.05, down to 0.25),
\* whatever the debt, and runSimulation reports postDTIPercent = 0.
C17_ZeroIncome ==
    (results # Null /\ NumberOrZero(data.monthlyIncome) = 0)
        => LET n == numericData(data)
               tier == TierWeights(n.ficoScore)
               dti == [tier EXCEPT
                          !.utilization = IF @ + 500 > 4500 THEN 4500 ELSE @ + 500,
                          !.paymentHistory = IF @ - 500 < 2500 THEN 2500 ELSE @ - 500]
           IN  /\ results.postDTI = 0
               /\ results.weights =
                    Normalize(AdjustAccountAge(
                        AdjustAnchors(
                            AdjustOverallUtilization(dti, n.totalDebt, n.totalCreditLimit),
                            n.positiveAccounts),
                        n.oldestAccountAge))

\* C17 witness: a result for an income of 0, no debt and a ficoScore of 740:
\* utilization 0.45 and paymentHistory 0.25 before normalization, postDTI 0.
C17_Witness ==
    /\ results # Null
    /\ data.monthlyIncome = Num(0)
    /\ data.totalDebt = Num(0)
    /\ data.ficoScore = Num(740)
    /\ AdjustedOf(data).utilization = 4500
    /\ AdjustedOf(data).paymentHistory = 2500
    /\ results.postDTI = 0

\* C18: debtSavings = 0.55 * totalDebt, the post-program debt is totalDebt -
\* debtSavings, and postDTIPercent = min(50, (postProgramDebt * 0.05 / 12)
\* / monthlyIncome * 100) when monthlyIncome > 0 and 0 otherwise, reported to
\* one decimal (a nearest tenth of that value); hence for totalDebt >= 0 the
\* reported postDTIPercent lies in [0, 50].  (savings in hundredths, postDTI
\* in tenths; the value is postProgramDebt / (24 * monthlyIncome) tenths.)
C18_FinancialKPIs ==
    results # Null
        => LET n == numericData(data)
               postProgramDebt == 100 * n.totalDebt - results.savings
               unit == 24 * n.monthlyIncome
               t == results.postDTI
           IN  /\ results.savings = 55 * n.totalDebt
               /\ IF n.monthlyIncome > 0
                  THEN \/ t = 500 /\ 2 * postProgramDebt >= 999 * unit
                       \/ /\ t < 500
                          /\ 2 * t * unit - 2 * postProgramDebt <= unit
                          /\ 2 * postProgramDebt - 2 * t * unit <= unit
                  ELSE t = 0
               /\ n.totalDebt >= 0 => (t >= 0 /\ t <= 500)

\* C18 witness: a result for a debt in contract and an income so small that
\* the value is above 50 and the cap was applied.
C18_Witness ==
    /\ results # Null
    /\ Number(data.totalDebt) > 1000
    /\ Number(data.monthlyIncome) > 0
    /\ PostDTI_NoCap(numericData(data)) > 500
    /\ results.postDTI = 500
    /\ results.savings > 0

----------------------------------------------------------------------------
(* SpecCoercion: runSimulation on records with fields that hold no number  *)

MaxBlankFields == 2

\* the fields runSimulation coerces (lines 428-440)
NumericFields ==
    {"ficoScore", "totalDebt", "monthlyIncome", "utilization", "accountsEnrolling",
     "positiveAccounts", "oldestAccountAge", "programTimeline", "totalCreditLimit",
     "monthsInProgram"}

\* empty, text that is no numeral, missing
BlankValues == {Empty, Str("abc"), Undefined}

\* A profile filled in as the form fills it in: the utilization select
\* leaves the string "70".
FilledProfiles ==
    {Profile(Num(650), Num(20000), Num(4000), Num(30000), Str("70"), Num(1),
             Num(8), Num(60), scenario, Num(12), TRUE, TRUE, FALSE) :
        scenario \in ScenarioTypes}

InitCoercion ==
    /\ \E filled \in FilledProfiles, blank \in SUBSET NumericFields :
        /\ Cardinality(blank) <= MaxBlankFields
        /\ \E value \in [blank -> BlankValues] :
            data = [k \in DOMAIN filled |-> IF k \in blank THEN value[k] ELSE filled[k]]
    /\ weights = Null
    /\ results = Null
    /\ remembered = Null
    /\ AppConstructed

NextCoercion == RunSimulation

SpecCoercion == InitCoercion /\ [][NextCoercion]_vars

\* a field that is missing, empty or non-numeric
Blank(v) == v \in BlankValues

\* The record d with every blank numeric field taken as 0, but a blank
\* programTimeline as timeline, and every other one as the number it holds.
TakenAs(d, timeline) ==
    [k \in DOMAIN d |->
        IF k \notin NumericFields THEN d[k]
        ELSE IF ~Blank(d[k]) THEN (IF Len(d[k]) = 1 THEN d[k][1] ELSE NumericStrings[d[k][2]])
        ELSE IF k = "programTimeline" THEN timeline
        ELSE 0]

\* C19 as stated: runSimulation returns a result for every input record, and
\* each of the ten numeric fields that is missing, empty or non-numeric is
\* treated as 0 in the computation.
C19_BlankFieldsAreZero ==
    results # Null => results = Projection(TakenAs(data, 0))

\* C19 amended: runSimulation returns a result for every input record; each
\* of the nine numeric fields other than programTimeline that is missing,
\* empty or non-numeric is treated as 0 in the computation, and a
\* programTimeline that is missing, empty or non-numeric is treated as 36.
C19_BlankFieldsAreZeroTimeline36 ==
    /\ results = Null => runSimulation(data).projectedScore \in Int
    /\ results # Null
         => /\ results = Projection(TakenAs(data, 36))
            /\ \A k \in {"initialScore", "lowPointScore", "projectedScore", "scoreGain",
                          "postDTI", "savings", "impactPenalty", "recoveryMonths",
                          "milestoneDipScore", "milestoneStabilizationScore",
                          "milestoneRecoveryScore"} : results[k] \in Int

\* C19 witness: a pre-enrollment result for a record whose programTimeline
\* is missing and whose ficoScore is text: 36 recovery months, a start at 0.
C19_Witness ==
    /\ results # Null
    /\ PreEnrollment
    /\ data.programTimeline = Undefined
    /\ data.ficoScore = Str("abc")
    /\ results.recoveryMonths = 36
    /\ results.initialScore = 0

----------------------------------------------------------------------------
(* SpecSave: 'Calculate Results' and the saving of the simulation          *)

MaxSaves == 2

\* getFirestore(app) (line 260)
Firestore == [firestore |-> TRUE]

\* cred.user.uid, user.uid or crypto.randomUUID() (lines 270-285)
Uid == [uid |-> TRUE]

\* The wizard at its third step, with a profile that has passed the
\* validations of the first two steps; the Firebase effect has not run.
InitSave ==
    /\ data \in HistoryProfiles \cup {ScenarioA, ScenarioB}
    /\ weights = Null
    /\ results = Null
    /\ remembered = Null
    /\ currentStep = 3
    /\ isLoading = FALSE
    /\ error = Null
    /\ isAuthReady = FALSE
    /\ db = Null
    /\ userId = Null
    /\ timeout = Null
    /\ saves = <<>>
    /\ errorTimers = {}

\* The Firebase effect without a configuration (lines 249-253).
FirebaseConfigMissing ==
    /\ ~isAuthReady /\ db = Null
    /\ isAuthReady' = TRUE
    /\ UNCHANGED <<data, weights, results, remembered, errorTimers, currentStep,
                   isLoading, error,
                   db, userId, timeout, saves>>

\* The Firebase effect with a configuration, its try block run to the end
\* (lines 255-291): the instances are stored and the listener is subscribed.
FirebaseInitialized ==
    /\ ~isAuthReady /\ db = Null
    /\ db' = Firestore
    /\ UNCHANGED <<data, weights, results, remembered, errorTimers, currentStep,
                   isLoading, error,
                   isAuthReady, userId, timeout, saves>>

\* The Firebase effect whose try block throws (lines 292-295), before setDb
\* was reached or after it.
FirebaseInitFails ==
    /\ ~isAuthReady /\ db = Null
    /\ db' \in {Null, Firestore}
    /\ isAuthReady' = TRUE
    /\ UNCHANGED <<data, weights, results, remembered, errorTimers, currentStep,
                   isLoading, error,
                   userId, timeout, saves>>

\* The listener of onAuthStateChanged (lines 263-288): a user id is set, the
\* signed-in user's or the fallback, and the authentication is ready.
AuthStateChanged ==
    /\ ~isAuthReady /\ db # Null
    /\ userId' = Uid
    /\ isAuthReady' = TRUE
    /\ UNCHANGED <<data, weights, results, remembered, errorTimers, currentStep,
                   isLoading, error,
                   db, timeout, saves>>

\* saveSimulation(simulationData, simulationResults) of a render in which
\* db, userId and isAuthReady had the values of c (lines 526-547), up to the
\* await: the call returns at once when one of the three is missing, and
\* awaits addDoc otherwise.
saveSimulation(c, simulationData, simulationResults) ==
    [input |-> simulationData, results |-> simulationResults,
     status |-> IF c.db = Null \/ c.userId = Null \/ ~c.isAuthReady
                THEN "skipped" ELSE "pending"]

\* handleNext at step 3 (lines 603-606), which is calculateAndShowResults up
\* to setTimeout (lines 618-621): the callback closes over the userData,
\* isAuthReady and saveSimulation of this render.
CalculateResults ==
    /\ currentStep = 3 /\ ~isLoading
    /\ isLoading' = TRUE
    /\ timeout' = [userData |-> data, isAuthReady |-> isAuthReady, db |-> db,
                   userId |-> userId]
    /\ UNCHANGED <<data, weights, results, remembered, errorTimers, currentStep,
                   error,
                   isAuthReady, db, userId, saves>>

\* The callback of calculateAndShowResults, 1.5 s later (lines 622-635).
ShowResults ==
    /\ timeout # Null
    /\ results' = runSimulation(timeout.userData)
    /\ weights' = results'.weights
    /\ saves' = IF timeout.isAuthReady
                THEN Append(saves, saveSimulation(timeout, timeout.userData, results'))
                ELSE saves
    /\ isLoading' = FALSE
    /\ currentStep' = 4
    /\ timeout' = Null
    /\ UNCHANGED <<data, remembered, errorTimers, error, isAuthReady, db, userId>>

\* 'Save & Email My Results' on the results step (lines 895-901).
SaveAndEmail ==
    /\ currentStep = 4 /\ ~isLoading
    /\ Len(saves) < MaxSaves
    /\ saves' = Append(saves,
                       saveSimulation([db |-> db, userId |-> userId,
                                       isAuthReady |-> isAuthReady], data, results))
    /\ UNCHANGED <<data, weights, results, remembered, errorTimers, currentStep,
                   isLoading, error,
                   isAuthReady, db, userId, timeout>>

\* addDoc resolves (lines 536-542).
SaveSucceeds ==
    /\ \E i \in DOMAIN saves :
        /\ saves[i].status = "pending"
        /\ saves' = [saves EXCEPT ![i].status = "saved"]
    /\ UNCHANGED <<data, weights, results, remembered, errorTimers, currentStep,
                   isLoading, error,
                   isAuthReady, db, userId, timeout>>

\* A failed save that tells the user.
SaveFails_ShowsError ==
    /\ \E i \in DOMAIN saves :
        /\ saves[i].status = "pending"
        /\ saves' = [saves EXCEPT ![i].status = "failed"]
    /\ error' = [message |-> "Error adding document"]
    /\ UNCHANGED <<data, weights, results, remembered, errorTimers, currentStep,
                   isLoading,
                   isAuthReady, db, userId, timeout>>

\* addDoc rejects and the catch logs it (lines 543-546), or collection()
\* throws and the promise nobody awaits is rejected (line 533).
SaveFails ==
    /\ \E i \in DOMAIN saves :
        /\ saves[i].status = "pending"
        /\ saves' = [saves EXCEPT ![i].status = "failed"]
    /\ UNCHANGED <<data, weights, results, remembered, errorTimers, currentStep,
                   isLoading, error,
                   isAuthReady, db, userId, timeout>>

NextSave ==
    \/ FirebaseConfigMissing
    \/ FirebaseInitialized
    \/ FirebaseInitFails
    \/ AuthStateChanged
    \/ CalculateResults
    \/ ShowResults
    \/ SaveAndEmail
    \/ SaveSucceeds
    \/ SaveFails

SpecSave == InitSave /\ [][NextSave]_vars

\* C20: persistence is best-effort.  After 'Calculate Results', whether the
\* save is skipped (database or user id not ready), succeeds or fails, the
\* computed results stay stored unchanged, the app is on the results step,
\* and no error is set for the user.
C20_SaveIsBestEffort ==
    /\ error = Null
    /\ currentStep = 4
         => (results # Null /\ results = runSimulation(data) /\ ~isLoading)
    /\ \A i \in DOMAIN saves :
         /\ saves[i].status \in {"skipped", "pending", "saved", "failed"}
         /\ currentStep = 4
         /\ results = saves[i].results

\* C20 witness: on the results step, after a save that has failed and one
\* that has succeeded; a skipped save is C20_WitnessSkipped.
C20_Witness ==
    /\ currentStep = 4
    /\ results # Null
    /\ \E i \in DOMAIN saves : saves[i].status = "failed"
    /\ \E i \in DOMAIN saves : saves[i].status = "saved"

\* on the results step after a save skipped for want of a database
C20_WitnessSkipped ==
    /\ currentStep = 4
    /\ results # Null
    /\ isAuthReady /\ db = Null
    /\ \E i \in DOMAIN saves : saves[i].status = "skipped"

----------------------------------------------------------------------------
(* SpecWizard: the four steps of the form, from the first render on.       *)
(* Of userData the model keeps the fields the engine and the validations   *)
(* read; settledAccounts, programPhase, firstName and email are read by    *)
(* neither.                                                                *)

\* defaultUserData (lines 208-234)
defaultUserData ==
    [ficoScore |-> Empty, totalDebt |-> Empty, monthlyIncome |-> Empty,
     utilization |-> Empty, accountsEnrolling |-> Empty,
     positiveAccounts |-> Empty, oldestAccountAge |-> Empty,
     programTimeline |-> Num(36), totalCreditLimit |-> Empty,
     scenarioType |-> "pre-enrollment", monthsInProgram |-> Num(0),
     securedCard |-> TRUE, creditBuilder |-> FALSE, authorizedUser |-> FALSE]

\* The first render of App (lines 237-246).
InitWizard ==
    /\ data = defaultUserData
    /\ weights = Null
    /\ results = Null
    /\ remembered = Null
    /\ AppConstructed

\* setTimeout(() => setError(null), 5000) (line 306), in seconds
ErrorSeconds == 5

\* showError(message) (lines 303-306): the message is shown, and a callback
\* that clears whatever message is shown then is scheduled 5 s ahead.  The
\* field shownFor counts the seconds the message has been on the screen.
showError(message) ==
    /\ error' = [message |-> message, shownFor |-> 0]
    /\ errorTimers' = errorTimers \cup {ErrorSeconds}

\* isNaN(parseFloat(v)), isNaN(parseInt(v)) for the value of a field: '' and
\* text that is no numeral parse to NaN.
ParseIsNaN(v) == v = Empty \/ NumberIsNaN(v)

\* The validation of step 1 in handleNext (lines 563-590): the message of
\* the first check that fails, "" when all pass.
Step1Error(userData) ==
    IF ParseIsNaN(userData.ficoScore) \/ Number(userData.ficoScore) < 300
          \/ Number(userData.ficoScore) > 850
    THEN "Please enter a valid FICO Score (300-850)."
    ELSE IF ParseIsNaN(userData.totalDebt) \/ Number(userData.totalDebt) <= 1000
    THEN "Please enter a valid Total Debt (over $1,000)."
    ELSE IF ParseIsNaN(userData.accountsEnrolling)
               \/ Number(userData.accountsEnrolling) < 1
    THEN "Please enter at least 1 account for enrollment."
    ELSE IF ParseIsNaN(userData.monthlyIncome) \/ Number(userData.monthlyIncome) <= 0
    THEN "Please enter a valid Monthly Income."
    ELSE IF userData.utilization = Empty
    THEN "Please select your Credit Utilization range."
    ELSE IF ParseIsNaN(userData.positiveAccounts)
               \/ Number(userData.positiveAccounts) < 0
    THEN "Please enter a valid number of positive accounts (0 or more)."
    ELSE IF ParseIsNaN(userData.oldestAccountAge)
               \/ Number(userData.oldestAccountAge) < 0
    THEN "Please enter a valid age for your oldest account (0 or more)."
    ELSE IF ParseIsNaN(userData.totalCreditLimit)
               \/ Number(userData.totalCreditLimit) < 0
    THEN "Please enter a valid Total Credit Limit (0 or more)."
    ELSE ""

\* A step 2 that lets every scenario through.
Step2Error_Unchecked(userData) == ""

\* The validation of step 2 in handleNext (lines 593-600).
Step2Error(userData) ==
    IF userData.scenarioType = "progress-tracker"
          /\ (ParseIsNaN(userData.monthsInProgram)
                \/ Number(userData.monthsInProgram) <= 0)
    THEN "Please enter how many months you've been in the program."
    ELSE ""

\* What handleNext shows instead of moving on (lines 561-600); "" for nothing.
ValidationError(step, userData) ==
    IF step = 1 THEN Step1Error(userData)
    ELSE IF step = 2 THEN Step2Error(userData)
    ELSE ""

\* The button 'Next Step' / 'Calculate Results' (lines 1031-1038), rendered
\* on steps 1 to 3 while nothing is loading: handleNext (lines 561-613) and,
\* on step 3, calculateAndShowResults up to its setTimeout.
HandleNext ==
    /\ ~isLoading /\ currentStep < 4
    /\ IF ValidationError(currentStep, data) # ""
       THEN /\ showError(ValidationError(currentStep, data))
            /\ UNCHANGED <<data, weights, results, remembered, currentStep, isLoading,
                           isAuthReady, db, userId, timeout, saves>>
       ELSE IF currentStep = 3
       THEN CalculateResults
       ELSE /\ currentStep' = currentStep + 1
            /\ UNCHANGED <<data, weights, results, remembered, isLoading, error,
                           errorTimers, isAuthReady, db, userId, timeout, saves>>

\* The button 'Back' (lines 1020-1027), disabled on steps 1 and 4 and not
\* rendered while loading: handlePrevious (lines 551-556).
HandlePrevious ==
    /\ ~isLoading /\ currentStep # 1 /\ currentStep # 4
    /\ IF currentStep > 1
       THEN currentStep' = currentStep - 1 /\ results' = Null
       ELSE UNCHANGED <<currentStep, results>>
    /\ UNCHANGED <<data, weights, remembered, isLoading, error, errorTimers,
                   isAuthReady, db, userId, timeout, saves>>

\* A 'Start New Simulation' that leaves the results in place.
StartNew_KeepsResults ==
    /\ ~isLoading /\ currentStep = 4
    /\ currentStep' = 1
    /\ data' = defaultUserData
    /\ UNCHANGED <<weights, results, remembered, isLoading, error, errorTimers,
                   isAuthReady, db, userId, timeout, saves>>

\* The button 'Start New Simulation' of step 4 (lines 1041-1051).
StartNew ==
    /\ ~isLoading /\ currentStep = 4
    /\ currentStep' = 1
    /\ results' = Null
    /\ data' = defaultUserData
    /\ UNCHANGED <<weights, remembered, isLoading, error, errorTimers,
                   isAuthReady, db, userId, timeout, saves>>

\* The inputs a step renders (Step1Profile, lines 640-680; Step2Scenario,
\* lines 685-765; Step3Tools, lines 766-800); the spinner replaces them all
\* while loading (lines 943-950).
Rendered(name) ==
    /\ ~isLoading
    /\ \/ /\ currentStep = 1
          /\ name \in {"ficoScore", "totalDebt", "accountsEnrolling", "monthlyIncome",
                       "utilization", "totalCreditLimit", "positiveAccounts",
                       "oldestAccountAge"}
       \/ /\ currentStep = 2
          /\ \/ name \in {"scenarioType", "programTimeline"}
             \/ name = "monthsInProgram" /\ data.scenarioType = "progress-tracker"
       \/ /\ currentStep = 3
          /\ name \in {"securedCard", "creditBuilder", "authorizedUser"}

\* e.target of a change event: value is the string the element holds, '' as
\* Empty and another string s as Str(s); a radio of scenarioType holds the
\* name of the scenario.
Target(name, type, value, checked) ==
    [name |-> name, type |-> type, value |-> value, checked |-> checked]

\* processedValue in handleChange (lines 315-323)
ProcessedValue(target) ==
    IF target.type = "checkbox" THEN target.checked
    ELSE IF target.type = "number" \/ target.name = "programTimeline"
    THEN IF target.value = Empty THEN Empty ELSE Num(Number(target.value))
    ELSE target.value

\* handleChange(e) (lines 312-329) for an input on the screen
HandleChange(target) ==
    /\ Rendered(target.name)
    /\ data' = [data EXCEPT ![target.name] = ProcessedValue(target)]
    /\ data' # data
    /\ UNCHANGED <<weights, results, remembered, app>>

\* What the user types and picks.  A number is left blank or typed; for
\* ficoScore, totalDebt, monthlyIncome and monthsInProgram the user also
\* types a number the validation refuses.
WizardTargets ==
    UNION {{Target(f[1], "number", Str(v), FALSE) : v \in f[2]} \cup
           {Target(f[1], "number", Empty, FALSE)} :
        f \in {<<"ficoScore", {"299", "650"}>>, <<"totalDebt", {"1000", "20000"}>>,
               <<"accountsEnrolling", {"1"}>>, <<"monthlyIncome", {"0", "4000"}>>,
               <<"positiveAccounts", {"1"}>>, <<"oldestAccountAge", {"8"}>>,
               <<"totalCreditLimit", {"30000"}>>}}
    \cup {Target("monthsInProgram", "number", Str(v), FALSE) : v \in {"0", "12"}}
    \cup {Target("utilization", "select-one", v, FALSE) : v \in {Empty, Str("70")}}
    \cup {Target("securedCard", "checkbox", Str("on"), c) : c \in BOOLEAN}

\* More than 5 s go by without an event: every callback showError has
\* scheduled runs, setError(null) (line 306).
ErrorTimeout ==
    /\ errorTimers # {}
    /\ error' = Null
    /\ errorTimers' = {}
    /\ UNCHANGED <<data, weights, results, remembered, currentStep, isLoading,
                   isAuthReady, db, userId, timeout, saves>>

NextWizard ==
    \/ \E target \in WizardTargets : HandleChange(target)
    \/ \E scenario \in ScenarioTypes :
          HandleChange(Target("scenarioType", "radio", scenario, TRUE))
    \/ HandleNext
    \/ HandlePrevious
    \/ ShowResults
    \/ StartNew
    \/ ErrorTimeout

SpecWizard == InitWizard /\ [][NextWizard]_vars

\* The inputs the engine is meant for, as the validations state them.
EngineContract(userData) ==
    LET n == numericData(userData)
    IN  /\ userData.ficoScore # Empty /\ n.ficoScore >= 300 /\ n.ficoScore <= 850
        /\ n.totalDebt > 1000
        /\ n.accountsEnrolling >= 1
        /\ n.monthlyIncome > 0
        /\ userData.utilization # Empty
        /\ userData.positiveAccounts # Empty /\ n.positiveAccounts >= 0
        /\ userData.oldestAccountAge # Empty /\ n.oldestAccountAge >= 0
        /\ userData.totalCreditLimit # Empty /\ n.totalCreditLimit >= 0
        /\ userData.scenarioType = "progress-tracker" => n.monthsInProgram > 0

\* C21: over every sequence of wizard actions (editing fields, Next, Back,
\* Start New Simulation), the userData the scheduled callback will hand to
\* runSimulation, and the userData behind the results on the screen, have
\* ficoScore in [300, 850], totalDebt > 1000, accountsEnrolling >= 1,
\* monthlyIncome > 0, a utilization bucket selected, positiveAccounts,
\* oldestAccountAge and totalCreditLimit >= 0 and, in the progress-tracker
\* scenario, monthsInProgram > 0.
C21_EngineInputsValidated ==
    /\ timeout # Null => EngineContract(timeout.userData)
    /\ results # Null => (EngineContract(data) /\ results = runSimulation(data))

\* C21 witness: results on the screen for a progress-tracker profile with a
\* tool switched off, so after edits on all three steps.
C21_Witness ==
    /\ currentStep = 4
    /\ results # Null
    /\ data.scenarioType = "progress-tracker"
    /\ ~data.securedCard

----------------------------------------------------------------------------
(* SpecErrors: showError and its timers, second by second, on step 1.      *)

\* One second goes by without an event, while no callback is due.
Tick ==
    /\ errorTimers # {} /\ 0 \notin errorTimers
    /\ errorTimers' = {t - 1 : t \in errorTimers}
    /\ error' = IF error = Null THEN Null
                ELSE [error EXCEPT !.shownFor = Min(@ + 1, ErrorSeconds)]
    /\ UNCHANGED <<data, weights, results, remembered, currentStep, isLoading,
                   isAuthReady, db, userId, timeout, saves>>

\* A callback of showError is due and runs: setError(null) (line 306).
\* clearTimeout is called nowhere, so every callback scheduled runs.
ErrorTimerFires ==
    /\ 0 \in errorTimers
    /\ error' = Null
    /\ errorTimers' = errorTimers \ {0}
    /\ UNCHANGED <<data, weights, results, remembered, currentStep, isLoading,
                   isAuthReady, db, userId, timeout, saves>>

\* The user types a FICO score, or clears the field.
ErrorTargets == {Target("ficoScore", "number", v, FALSE) : v \in {Empty, Str("650")}}

NextErrors ==
    \/ \E target \in ErrorTargets : HandleChange(target)
    \/ HandleNext
    \/ Tick
    \/ ErrorTimerFires

SpecErrors == InitWizard /\ [][NextErrors]_vars

\* C22: every error message shown by showError stays visible for 5 seconds
\* from the call that displayed it, whatever the sequence and timing of the
\* calls: a message is cleared only once it has been shown for 5 seconds.
C22_ErrorShownFiveSeconds ==
    [][(error # Null /\ error' = Null) => error.shownFor >= ErrorSeconds]_vars

\* C22, the case that holds: a message is on the screen in its fifth second
\* and no other call of showError has been made since the screen was clear.
C22_Witness ==
    /\ error # Null
    /\ error.shownFor = ErrorSeconds - 1
    /\ errorTimers = {1}

----------------------------------------------------------------------------
(* Further claims on calculateWeights, under SpecWeights                   *)

\* The profile in data as it would be without positive accounts.
WithoutAnchors(d) == [d EXCEPT !.positiveAccounts = Num(0)]

\* C23: the positive-account anchor gives payment history less impact: for
\* every profile, the paymentHistory weight before normalization computed
\* with positiveAccounts > 0 is never larger than the one computed for the
\* same profile with positiveAccounts = 0.
C23_AnchorLowersPaymentHistory ==
    (weights # Null /\ numericData(data).positiveAccounts > 0)
        => AdjustedOf(data).paymentHistory
              <= AdjustedOf(WithoutAnchors(data)).paymentHistory

\* C23, the case that holds: a profile with positive accounts whose payment
\* history weight the anchor has lowered, from 0.35 to 0.30.
C23_Witness ==
    /\ weights # Null
    /\ numericData(data).positiveAccounts > 0
    /\ AdjustedOf(WithoutAnchors(data)).paymentHistory = 3500
    /\ AdjustedOf(data).paymentHistory = 3000

----------------------------------------------------------------------------
(* SpecScores: runSimulation on profiles whose ficoScore runs through the  *)
(* range, closely around the bounds of the tiers and of the range.         *)

ScoreFicoScores ==
    {Num(f) : f \in {250, 300, 301, 499, 500, 501, 520, 579, 580, 581, 600, 739,
                     740, 741, 800, 849, 850, 900}}

\* <<scenarioType, monthsInProgram>>
ScoreScenarios ==
    {<<"pre-enrollment", Num(0)>>, <<"progress-tracker", Num(12)>>,
     <<"progress-tracker", Num(30)>>}

\* <<securedCard, creditBuilder, authorizedUser>>
ScoreTools == {<<FALSE, FALSE, FALSE>>, <<TRUE, FALSE, FALSE>>, <<TRUE, TRUE, TRUE>>}

InitScores ==
    /\ \E fico \in ScoreFicoScores, fin \in {f \in Finances : f[1] # Empty},
          util \in {Num(30), Num(70), Num(100)}, positive \in PositiveAccounts,
          age \in OldestAccountAges, timeline \in ProgramTimelines,
          scenario \in ScoreScenarios, tools \in ScoreTools :
            data = Profile(fico, fin[1], fin[2], fin[3], util, positive, age,
                           timeline, scenario[1], scenario[2], tools[1], tools[2],
                           tools[3])
    /\ weights = Null
    /\ results = Null
    /\ remembered = Null
    /\ AppConstructed

NextScores == RunSimulation

SpecScores == InitScores /\ [][NextScores]_vars

\* The profile in data with another ficoScore.
WithFicoScore(d, fico) == [d EXCEPT !.ficoScore = fico]

\* C24: lower scores drop less and higher scores drop more: in pre-enrollment,
\* of two valid profiles that differ only in ficoScore, the one with the
\* higher ficoScore never gets the smaller impactPenalty, the effect of
\* ficoScore on the utilization weight (tier rule, normalization) included.
C24_HigherScoresDropMore ==
    (results # Null /\ PreEnrollment /\ ValidProfile(data))
        => \A fico \in ScoreFicoScores :
             (ValidProfile(WithFicoScore(data, fico))
                /\ Number(fico) >= Number(data.ficoScore))
                 => runSimulation(WithFicoScore(data, fico)).impactPenalty
                       >= results.impactPenalty

\* C24 witness: a valid pre-enrollment profile in the lowest tier whose
\* impactPenalty is above the floor of 20 and strictly below the one the
\* same profile gets with a ficoScore of the highest tier.
C24_Witness ==
    /\ results # Null
    /\ PreEnrollment
    /\ ValidProfile(data)
    /\ Number(data.ficoScore) <= 580
    /\ results.impactPenalty > 20
    /\ ValidProfile(WithFicoScore(data, Num(740)))
    /\ runSimulation(WithFicoScore(data, Num(740))).impactPenalty
          > results.impactPenalty

\* totalGain in ScoreChart (line 130), with the props Step4Results passes
\* (lines 871-878): end - dip
ChartTotalGain(r) == r.projectedScore - r.milestoneDipScore

\* C25: for every valid profile in either scenario, projectedScore is
\* strictly greater than lowPointScore, so the totalGain by which the score
\* chart divides is never zero.
C25_ChartDivisorNotZero ==
    (results # Null /\ ValidProfile(data))
        => /\ results.projectedScore > results.lowPointScore
           /\ ChartTotalGain(results) # 0

\* C25, the case that holds: a valid progress-tracker profile below 850, whose
\* projection is above its low point.
C25_Witness ==
    /\ results # Null
    /\ ValidProfile(data)
    /\ ProgressTracker
    /\ results.lowPointScore = 849
    /\ ChartTotalGain(results) = 1

\* C27: in the progress-tracker scenario with ficoScore in [300, 850],
\* scoreGain >= 0 for every choice of weights, timeline, monthsInProgram and
\* tools.
C27_ProgressGainNotNegative ==
    (results # Null /\ ProgressTracker
        /\ Number(data.ficoScore) >= 300 /\ Number(data.ficoScore) <= 850)
        => results.scoreGain >= 0

\* C27 witness: a progress-tracker profile at 850 without tools, whose gain
\* the cap leaves at 0, with months in program beyond the timeline.
C27_Witness ==
    /\ results # Null
    /\ ProgressTracker
    /\ Number(data.ficoScore) = 850
    /\ Number(data.monthsInProgram) > Number(data.programTimeline)
    /\ ~data.securedCard
    /\ results.scoreGain = 0

----------------------------------------------------------------------------
(* Claims on the navigation, under SpecWizard                              *)

\* C26: in every reachable state of the wizard, currentStep = 4 implies that
\* results is not null and isLoading is false; step 4 is entered only from
\* step 3 while loading, by the callback that has stored the results; step 4
\* is left only for step 1 (Back is refused), and then results is cleared and
\* userData is back at its defaults.
C26_ResultsStep ==
    /\ [](currentStep = 4 => (results # Null /\ ~isLoading))
    /\ [][/\ (currentStep # 4 /\ currentStep' = 4)
               => (currentStep = 3 /\ isLoading /\ timeout # Null
                     /\ results' = runSimulation(timeout.userData))
          /\ (currentStep = 4 /\ currentStep' # 4)
               => (currentStep' = 1 /\ results' = Null /\ data' = defaultUserData)
         ]_vars

\* C26 witness: the results step of a pre-enrollment profile, reached while
\* the message of a Next refused on step 1 is still shown.
C26_Witness ==
    /\ currentStep = 4
    /\ results # Null
    /\ PreEnrollment
    /\ error # Null
    /\ error.message = "Please enter a valid Monthly Income."

====
